---- MODULE Spec2Model ----
(***************************************************************************)
(* Model of the form-submission backend: POST /api/contact, POST           *)
(* /api/apply (multer upload + Application save + cleanup on failure),     *)
(* GET /api/applications and the error handling middleware.                *)
(* Requests are processed concurrently; a request yields at every await    *)
(* and at every asynchronous callback, so each action below is one         *)
(* run-to-completion segment of the Node.js event loop.                    *)
(***************************************************************************)
EXTENDS Integers, Sequences, FiniteSets, TLC

(* ---- bounds ---------------------------------------------------------- *)
\* number of POST /api/contact requests that are in flight together
MaxContactReqs == 1
\* number of POST /api/apply requests that are in flight together
MaxApplyReqs == 2
\* Date.now() takes the values 1..MaxNow
MaxNow == 2
\* Math.round(Math.random() * 1E9) takes the values 0..MaxRand
MaxRand == 0

\* request ids, given in the order of arrival; they also stand for the _id
\* of the document a request builds
ContactReqs == 1..MaxContactReqs
ApplyReqs == (MaxContactReqs + 1)..(MaxContactReqs + MaxApplyReqs)
Reqs == ContactReqs \cup ApplyReqs

(* ---- program constants ----------------------------------------------- *)
FileSizeLimit == 5 * 1024 * 1024

(* ---- strings ---------------------------------------------------------- *)
Ch(s, i) == SubSeq(s, i, i)

\* String.prototype.includes
Contains(s, t) ==
  \E i \in 1..(Len(s) - Len(t) + 1) : SubSeq(s, i, i + Len(t) - 1) = t

\* Array.prototype.join
RECURSIVE Join(_, _)
Join(msgs, sep) ==
  IF msgs = <<>> THEN ""
  ELSE IF Len(msgs) = 1 THEN msgs[1]
  ELSE msgs[1] \o sep \o Join(Tail(msgs), sep)

\* path.extname: from the last dot of the name to its end; "" when there is
\* no dot or when the only dot is the first character
extname(name) ==
  LET dots == {i \in 1..Len(name) : Ch(name, i) = "."}
      last == CHOOSE i \in dots : \A j \in dots : j <= i
  IN  IF dots = {} THEN ""
      ELSE IF last = 1 THEN ""
      ELSE SubSeq(name, last, Len(name))

(* ---- the email pattern ------------------------------------------------ *)
\* \w
WordChars ==
  {"a","b","c","d","e","f","g","h","i","j","k","l","m","n","o","p","q","r",
   "s","t","u","v","w","x","y","z","A","B","C","D","E","F","G","H","I","J",
   "K","L","M","N","O","P","Q","R","S","T","U","V","W","X","Y","Z","0","1",
   "2","3","4","5","6","7","8","9","_"}
\* [\.-]
SepChars == {".", "-"}

\* A set P of positions (number of characters consumed so far) is advanced
\* through one character of class C.
StepClass(s, P, C) ==
  {p + 1 : p \in {q \in P : q < Len(s) /\ Ch(s, q + 1) \in C}}

\* C+
RECURSIVE PlusClass(_, _, _)
PlusClass(s, P, C) ==
  LET Q == StepClass(s, P, C)
  IN  IF Q = {} THEN {} ELSE Q \cup PlusClass(s, Q, C)

\* [\.-]?\w+
SepWord(s, P) == PlusClass(s, P \cup StepClass(s, P, SepChars), WordChars)

\* ([\.-]?\w+)*
RECURSIVE StarSepWord(_, _)
StarSepWord(s, P) ==
  LET Q == SepWord(s, P) \ P
  IN  IF Q = {} THEN P ELSE StarSepWord(s, P \cup Q)

\* \w+([\.-]?\w+)*
WordRun(s, P) == StarSepWord(s, PlusClass(s, P, WordChars))

\* \.\w{2,3}
DotTld(s, P) ==
  LET w1 == StepClass(s, StepClass(s, P, {"."}), WordChars)
      w2 == StepClass(s, w1, WordChars)
      w3 == StepClass(s, w2, WordChars)
  IN  w2 \cup w3

\* (\.\w{2,3})+
RECURSIVE PlusDotTld(_, _)
PlusDotTld(s, P) ==
  LET Q == DotTld(s, P)
  IN  IF Q = {} THEN {} ELSE Q \cup PlusDotTld(s, Q)

\* /^\w+([\.-]?\w+)*@\w+([\.-]?\w+)*(\.\w{2,3})+$/.test(s)
EmailRegexTest(s) ==
  Len(s) \in PlusDotTld(s, WordRun(s, StepClass(s, WordRun(s, {0}), {"@"})))

(* ---- file intake ------------------------------------------------------ *)
\* multer.diskStorage filename
GenFilename(ts, rnd, originalname) ==
  ToString(ts) \o "-" \o ToString(rnd) \o extname(originalname)

\* destination 'uploads/' joined with the generated name: req.file.path
FilePath(filename) == "uploads/" \o filename

\* `${req.protocol}://${req.get('host')}/uploads/${req.file.filename}`
ResumeUrl(protocol, host, filename) ==
  protocol \o "://" \o host \o "/uploads/" \o filename

\* express.static('uploads') mounted at /uploads: the disk path that the
\* URL is served from (the URL path after scheme and host, without its
\* leading slash)
StaticPath(url) ==
  LET starts == {i \in 1..(Len(url) - 8) : SubSeq(url, i, i + 8) = "/uploads/"}
      first == CHOOSE i \in starts : \A j \in starts : i <= j
  IN  IF starts = {} THEN "" ELSE SubSeq(url, first + 1, Len(url))

NoFile ==
  [present |-> FALSE, fieldname |-> "", originalname |-> "",
   mimetype |-> "", size |-> 0, filename |-> "", path |-> ""]

\* the directory after a file is written to path by request r
WriteFile(files, path, r) ==
  [p \in DOMAIN files \cup {path} |-> IF p = path THEN r ELSE files[p]]

\* an unlink that reports success and leaves the file
RemoveFileKeeps(files, path) == files

\* the directory after a successful unlink of path
RemoveFile(files, path) == [p \in DOMAIN files \ {path} |-> files[p]]

(* ---- request inputs --------------------------------------------------- *)
ContactBodies ==
  { [name |-> "Jane", email |-> "jane@x.com", message |-> "hi"],
    [name |-> "", email |-> "a@b.com", message |-> "hi"],
    [name |-> "Jane", email |-> "jane@x", message |-> "hi"],
    [name |-> "Jane", email |-> "", message |-> ""],
    [email |-> "a.b@c-d.co.uk"],
    [email |-> "a@b.c", message |-> "hi"] }

ValidApply ==
  [name |-> "Jane", email |-> "jane@x.com", qualification |-> "BSc",
   specialization |-> "Bio"]
BadEmailApply ==
  [name |-> "Jane", email |-> "jane@x", qualification |-> "BSc",
   specialization |-> ""]
SparseApply == [email |-> "jane@x.com", qualification |-> "BSc"]

Upload(fieldname, originalname, mimetype, size) ==
  [present |-> TRUE, fieldname |-> fieldname, originalname |-> originalname,
   mimetype |-> mimetype, size |-> size, filename |-> "", path |-> ""]

\* the multipart forms that are submitted: the text fields and the file part
ApplyInputs ==
  { [body |-> ValidApply, upload |-> NoFile],
    [body |-> SparseApply, upload |-> NoFile],
    [body |-> ValidApply,
     upload |-> Upload("resume", "cv.pdf", "application/pdf", 1024)],
    [body |-> BadEmailApply,
     upload |-> Upload("resume", "cv", "application/pdf", 1024)],
    [body |-> ValidApply,
     upload |-> Upload("resume", "cv.txt", "text/plain", 1024)],
    [body |-> ValidApply,
     upload |-> Upload("resume", "big.pdf", "application/pdf",
                       FileSizeLimit + 1)],
    [body |-> SparseApply,
     upload |-> Upload("resume", "big.txt", "text/plain", FileSizeLimit + 1)],
    [body |-> ValidApply,
     upload |-> Upload("photo", "cv.pdf", "application/pdf", 1024)] }

Protocols == {"http"}
Hosts == {"localhost:5000"}

(* ---- schemas and validation ------------------------------------------ *)
\* A document is a record holding the fields that are defined; an absent
\* field is JavaScript's undefined.
contactSchema ==
  << [path |-> "name", required |-> "Name is required", match |-> ""],
     [path |-> "email", required |-> "Email is required",
      match |-> "Please enter a valid email address"],
     [path |-> "message", required |-> "Message is required", match |-> ""] >>

applicationSchema ==
  << [path |-> "name", required |-> "Name is required", match |-> ""],
     [path |-> "email", required |-> "Email is required",
      match |-> "Please enter a valid email address"],
     [path |-> "qualification", required |-> "Qualification is required",
      match |-> ""],
     [path |-> "specialization", required |-> "Specialization is required",
      match |-> ""],
     [path |-> "resumeUrl", required |-> "Resume URL is required",
      match |-> ""] >>

\* a required validator that lets the empty string through
RequiredFailsUndefinedOnly(doc, path) == path \notin DOMAIN doc

\* the required validator of a String path: undefined and "" both fail
RequiredFails(doc, path) == path \notin DOMAIN doc \/ doc[path] = ""

\* the verdict of the pattern on every email that is submitted, computed
\* once
SubmittedEmails ==
  {b.email : b \in {c \in ContactBodies \cup {in.body : in \in ApplyInputs} :
                      "email" \in DOMAIN c}}
EmailMatches == [e \in SubmittedEmails |-> EmailRegexTest(e)]

\* the match validator is skipped for undefined and ""
MatchFails(doc, path) ==
  path \in DOMAIN doc /\ doc[path] # "" /\ ~EmailMatches[doc[path]]

\* Object.values(error.errors).map(err => err.message): one message for each
\* violated path, in schema order; the first failing validator of a path
\* gives the message
RECURSIVE ValidationMessages(_, _)
ValidationMessages(schema, doc) ==
  IF schema = <<>> THEN <<>>
  ELSE LET p == Head(schema)
           rest == ValidationMessages(Tail(schema), doc)
       IN  IF RequiredFails(doc, p.path) THEN <<p.required>> \o rest
           ELSE IF p.match # "" /\ MatchFails(doc, p.path)
                  THEN <<p.match>> \o rest
           ELSE rest

\* destructuring of req.body followed by new Model({...}): only the named
\* fields are copied, an undefined one stays absent
Pick(body, fields) == [f \in {g \in fields : g \in DOMAIN body} |-> body[f]]

(* ---- responses and errors -------------------------------------------- *)
Response(status, success, message) ==
  [status |-> status, success |-> success, message |-> message]
NoResponse == Response(0, FALSE, "")

ContactThanks == "Thank you! We will connect shortly."
ContactFailed == "Error submitting form. Please try again."
ApplyThanks == "Thank you for your application! We will review it shortly."
ApplyFailed == "Error submitting application. Please try again."
ResumeMissing == "Please upload a resume"
FileTooLarge == "File is too large. Maximum size is 5MB"
UploadFailed == "Error uploading file"
ListFailed == "Error fetching applications"
SomethingBroke == "Something broke!"

\* the errors that reach next(err)
PdfOnlyError ==
  [kind |-> "Error", code |-> "", message |-> "Only PDF files are allowed!"]
LimitFileSize ==
  [kind |-> "MulterError", code |-> "LIMIT_FILE_SIZE",
   message |-> "File too large"]
LimitUnexpectedFile ==
  [kind |-> "MulterError", code |-> "LIMIT_UNEXPECTED_FILE",
   message |-> "Unexpected field"]
\* express.json() on a malformed body
JsonSyntaxError ==
  [kind |-> "SyntaxError", code |-> "",
   message |-> "Unexpected token } in JSON at position 9"]

\* an error handling middleware without the LIMIT_FILE_SIZE case
ErrorMiddlewareNoSizeCase(err) ==
  IF err.kind = "MulterError"
    THEN Response(400, FALSE, UploadFailed)
    ELSE Response(500, FALSE,
                  IF err.message # "" THEN err.message ELSE SomethingBroke)

\* the error handling middleware
ErrorMiddleware(err) ==
  IF err.kind = "MulterError"
    THEN IF err.code = "LIMIT_FILE_SIZE"
           THEN Response(400, FALSE, FileTooLarge)
           ELSE Response(400, FALSE, UploadFailed)
    ELSE Response(500, FALSE,
                  IF err.message # "" THEN err.message ELSE SomethingBroke)

\* the catch blocks of the two submission handlers
CatchResponse(messages, generic) ==
  IF messages # <<>>
    THEN Response(400, FALSE, Join(messages, ". "))
    ELSE Response(500, FALSE, generic)

(* ---- state ------------------------------------------------------------ *)
\* The request-local variables hold a value while the request can still use
\* it: req.body until the document is built from it, the document until
\* save() has settled, req.file until the response is sent or, when the
\* catch block started an unlink, until that unlink has called back.
VARIABLES now, pc, body, upload, file, doc, res, unlink, contacts,
          applications, uploads, listing

\* now           Date.now()
\* pc            where each request is: idle, handler, limit, saving, done
\* body          req.body
\* upload        the file part that came with the request
\* file          req.file (NoFile while undefined)
\* doc           newContact / newApplication
\* res           the response that was sent (NoResponse before)
\* unlink        the fs.unlink of the catch block: none, pending, ok, err
\* contacts      the Contact collection, in insertion order
\* applications  the Application collection, in insertion order
\* uploads       the upload directory: path |-> request that wrote it
\* listing       the last response of GET /api/applications
vars ==
  << now, pc, body, upload, file, doc, res, unlink, contacts, applications,
     uploads, listing >>

NoDoc == [f \in {} |-> ""]
NoListing == [status |-> 0, success |-> FALSE, message |-> "", data |-> <<>>]

Init ==
  /\ now = 1
  /\ pc = [r \in Reqs |-> "idle"]
  /\ body = [r \in Reqs |-> NoDoc]
  /\ upload = [r \in Reqs |-> NoFile]
  /\ file = [r \in Reqs |-> NoFile]
  /\ doc = [r \in Reqs |-> NoDoc]
  /\ res = [r \in Reqs |-> NoResponse]
  /\ unlink = [r \in Reqs |-> "none"]
  /\ contacts = <<>>
  /\ applications = <<>>
  /\ uploads = [p \in {} |-> 0]
  /\ listing = NoListing

\* the clock advances
Tick ==
  /\ now < MaxNow
  /\ now' = now + 1
  /\ UNCHANGED << pc, body, upload, file, doc, res, unlink, contacts,
                  applications, uploads, listing >>


(* ---- POST /api/contact ------------------------------------------------ *)
\* a constructor call that passes the name where the message belongs
NewContactSwapped(r, b) ==
  Pick(b, {"name", "email"})
    @@ (IF "name" \in DOMAIN b THEN [message |-> b.name] ELSE NoDoc)
    @@ [_id |-> r, createdAt |-> now]

\* new Contact({ name, email, message })
NewContact(r, b) ==
  Pick(b, {"name", "email", "message"}) @@ [_id |-> r, createdAt |-> now]

\* express.json() and the handler down to await newContact.save()
ContactPost(r) ==
  /\ r \in ContactReqs
  /\ pc[r] = "idle"
  /\ \A q \in ContactReqs : q < r => pc[q] # "idle"
  /\ \E wellFormed \in BOOLEAN, b \in ContactBodies :
       IF wellFormed
         THEN /\ body' = [body EXCEPT ![r] = b]
              /\ doc' = [doc EXCEPT ![r] = NewContact(r, b)]
              /\ pc' = [pc EXCEPT ![r] = "saving"]
              /\ res' = res
         ELSE /\ res' = [res EXCEPT ![r] = ErrorMiddleware(JsonSyntaxError)]
              /\ pc' = [pc EXCEPT ![r] = "done"]
              /\ UNCHANGED << body, doc >>
  /\ UNCHANGED << now, upload, file, unlink, contacts, applications,
                  uploads, listing >>

\* newContact.save() settles: validation first, then the insert, which the
\* store may fail; then the 201 or the catch block
ContactSave(r) ==
  /\ r \in ContactReqs
  /\ pc[r] = "saving"
  /\ LET messages == ValidationMessages(contactSchema, doc[r])
     IN  \E storeOk \in BOOLEAN :
           IF messages = <<>> /\ storeOk
             THEN /\ contacts' = Append(contacts, doc[r])
                  /\ res' = [res EXCEPT ![r] = Response(201, TRUE, ContactThanks)]
             ELSE /\ contacts' = contacts
                  /\ res' = [res EXCEPT ![r] =
                               CatchResponse(messages, ContactFailed)]
  /\ pc' = [pc EXCEPT ![r] = "done"]
  /\ body' = [body EXCEPT ![r] = NoDoc]
  /\ doc' = [doc EXCEPT ![r] = NoDoc]
  /\ UNCHANGED << now, upload, file, unlink, applications,
                  uploads, listing >>

(* ---- POST /api/apply -------------------------------------------------- *)
\* upload.single('resume'): multer reads the multipart form, fills req.body,
\* refuses a file in another field, runs fileFilter, and streams an accepted
\* file to uploads/ under the generated name. An error goes to next(err) and
\* so to the error handling middleware; the route handler is then skipped.
ApplyUpload(r) ==
  /\ r \in ApplyReqs
  /\ pc[r] = "idle"
  /\ \A q \in ApplyReqs : q < r => pc[q] # "idle"
  /\ \E in \in ApplyInputs, rnd \in 0..MaxRand :
       LET f == in.upload
           filename == GenFilename(now, rnd, f.originalname)
       IN  /\ upload' = [upload EXCEPT ![r] = f]
           /\ IF ~f.present
                THEN /\ pc' = [pc EXCEPT ![r] = "handler"]
                     /\ body' = [body EXCEPT ![r] = in.body]
                     /\ UNCHANGED << file, res, uploads >>
              ELSE IF f.fieldname # "resume"
                THEN /\ res' = [res EXCEPT ![r] =
                                  ErrorMiddleware(LimitUnexpectedFile)]
                     /\ pc' = [pc EXCEPT ![r] = "done"]
                     /\ UNCHANGED << body, file, uploads >>
              ELSE IF f.mimetype # "application/pdf"
                THEN /\ res' = [res EXCEPT ![r] = ErrorMiddleware(PdfOnlyError)]
                     /\ pc' = [pc EXCEPT ![r] = "done"]
                     /\ UNCHANGED << body, file, uploads >>
              ELSE /\ file' = [file EXCEPT ![r] =
                                 [f EXCEPT !.filename = filename,
                                           !.path = FilePath(filename)]]
                   /\ uploads' = WriteFile(uploads, FilePath(filename), r)
                   /\ IF f.size > FileSizeLimit
                        THEN /\ pc' = [pc EXCEPT ![r] = "limit"]
                             /\ body' = body
                        ELSE /\ pc' = [pc EXCEPT ![r] = "handler"]
                             /\ body' = [body EXCEPT ![r] = in.body]
                   /\ res' = res
  /\ UNCHANGED << now, doc, unlink, contacts, applications, listing >>

\* the file went over limits.fileSize: multer removes what it wrote and
\* passes MulterError LIMIT_FILE_SIZE to next(err); req.file is never set
ApplyLimit(r) ==
  /\ r \in ApplyReqs
  /\ pc[r] = "limit"
  /\ uploads' = RemoveFile(uploads, file[r].path)
  /\ file' = [file EXCEPT ![r] = NoFile]
  /\ res' = [res EXCEPT ![r] = ErrorMiddleware(LimitFileSize)]
  /\ pc' = [pc EXCEPT ![r] = "done"]
  /\ UNCHANGED << now, body, upload, doc, unlink, contacts, applications,
                  listing >>

\* new Application({ name, email, qualification, specialization, resumeUrl })
NewApplication(r, b, resumeUrl) ==
  Pick(b, {"name", "email", "qualification", "specialization"})
    @@ [_id |-> r, resumeUrl |-> resumeUrl, createdAt |-> now]

\* a route handler without the !req.file test: reading req.file.filename
\* then throws inside the try, and the catch block answers 500
ApplyHandlerNoFileCheck(r) ==
  /\ r \in ApplyReqs
  /\ pc[r] = "handler"
  /\ IF ~file[r].present
       THEN /\ res' = [res EXCEPT ![r] = Response(500, FALSE, ApplyFailed)]
            /\ pc' = [pc EXCEPT ![r] = "done"]
            /\ doc' = doc
       ELSE \E protocol \in Protocols, host \in Hosts :
              /\ doc' = [doc EXCEPT ![r] =
                           NewApplication(r, body[r],
                             ResumeUrl(protocol, host, file[r].filename))]
              /\ pc' = [pc EXCEPT ![r] = "saving"]
              /\ res' = res
  /\ body' = [body EXCEPT ![r] = NoDoc]
  /\ UNCHANGED << now, upload, file, unlink, contacts,
                  applications, uploads, listing >>

\* the route handler down to await newApplication.save()
ApplyHandler(r) ==
  /\ r \in ApplyReqs
  /\ pc[r] = "handler"
  /\ IF ~file[r].present
       THEN /\ res' = [res EXCEPT ![r] = Response(400, FALSE, ResumeMissing)]
            /\ pc' = [pc EXCEPT ![r] = "done"]
            /\ doc' = doc
       ELSE \E protocol \in Protocols, host \in Hosts :
              /\ doc' = [doc EXCEPT ![r] =
                           NewApplication(r, body[r],
                             ResumeUrl(protocol, host, file[r].filename))]
              /\ pc' = [pc EXCEPT ![r] = "saving"]
              /\ res' = res
  /\ body' = [body EXCEPT ![r] = NoDoc]
  /\ UNCHANGED << now, upload, file, unlink, contacts, applications, uploads,
                  listing >>

\* newApplication.save() settles: validation first, then the insert, which
\* the store may fail; then the 201, or the catch block, which starts the
\* fs.unlink of req.file.path and answers without waiting for it
ApplySave(r) ==
  /\ r \in ApplyReqs
  /\ pc[r] = "saving"
  /\ LET messages == ValidationMessages(applicationSchema, doc[r])
     IN  \E storeOk \in BOOLEAN :
           IF messages = <<>> /\ storeOk
             THEN /\ applications' = Append(applications, doc[r])
                  /\ res' = [res EXCEPT ![r] = Response(201, TRUE, ApplyThanks)]
                  /\ file' = [file EXCEPT ![r] = NoFile]
                  /\ unlink' = unlink
             ELSE /\ applications' = applications
                  /\ unlink' = [unlink EXCEPT ![r] = "pending"]
                  /\ res' = [res EXCEPT ![r] =
                               CatchResponse(messages, ApplyFailed)]
                  /\ file' = file
  /\ pc' = [pc EXCEPT ![r] = "done"]
  /\ doc' = [doc EXCEPT ![r] = NoDoc]
  /\ UNCHANGED << now, body, upload, contacts, uploads, listing >>

\* the fs.unlink callback: the file is removed, or the call fails (the path
\* is already gone, or the file system refuses) and the error is only logged
UnlinkDone(r) ==
  /\ unlink[r] = "pending"
  /\ \E fsOk \in BOOLEAN :
       IF fsOk /\ file[r].path \in DOMAIN uploads
         THEN /\ uploads' = RemoveFile(uploads, file[r].path)
              /\ unlink' = [unlink EXCEPT ![r] = "ok"]
         ELSE /\ uploads' = uploads
              /\ unlink' = [unlink EXCEPT ![r] = "err"]
  /\ file' = [file EXCEPT ![r] = NoFile]
  /\ UNCHANGED << now, pc, body, upload, doc, res, contacts, applications,
                  listing >>

(* ---- GET /api/applications -------------------------------------------- *)
\* the comparison of sort({ createdAt: 1 })
ComesBeforeAscending(a, b, tieFirst) ==
  a.createdAt < b.createdAt \/ (tieFirst /\ a.createdAt = b.createdAt)

\* sort({ createdAt: -1 }): a comes before b; the store does not fix the
\* order of two records with the same createdAt (tieFirst)
ComesBefore(a, b, tieFirst) ==
  a.createdAt > b.createdAt \/ (tieFirst /\ a.createdAt = b.createdAt)

RECURSIVE InsertSorted(_, _, _)
InsertSorted(x, s, tieFirst) ==
  IF s = <<>> THEN <<x>>
  ELSE IF ComesBefore(x, Head(s), tieFirst) THEN <<x>> \o s
  ELSE <<Head(s)>> \o InsertSorted(x, Tail(s), tieFirst)

RECURSIVE SortByCreatedAtDesc(_, _)
SortByCreatedAtDesc(s, tieFirst) ==
  IF s = <<>> THEN <<>>
  ELSE InsertSorted(Head(s), SortByCreatedAtDesc(Tail(s), tieFirst), tieFirst)

ListApplications ==
  /\ \E storeOk \in BOOLEAN, tieFirst \in BOOLEAN :
       listing' =
         IF storeOk
           THEN [status |-> 200, success |-> TRUE, message |-> "",
                 data |-> SortByCreatedAtDesc(applications, tieFirst)]
           ELSE [status |-> 500, success |-> FALSE, message |-> ListFailed,
                 data |-> <<>>]
  /\ UNCHANGED << now, pc, body, upload, file, doc, res, unlink, contacts,
                  applications, uploads >>

(* ---- the system ------------------------------------------------------- *)
\* application submissions in flight together
NextApply ==
  \/ Tick
  \/ \E r \in ApplyReqs : ApplyUpload(r)
  \/ \E r \in ApplyReqs : ApplyLimit(r)
  \/ \E r \in ApplyReqs : ApplyHandler(r)
  \/ \E r \in ApplyReqs : ApplySave(r)
  \/ \E r \in ApplyReqs : UnlinkDone(r)

SpecApply == Init /\ [][NextApply]_vars

\* application submissions and a listing. The listing reads the store and
\* changes nothing that a submission reads, so what follows it adds no
\* store state: a behaviour of SpecList ends with the listing.
NextList == listing = NoListing /\ (NextApply \/ ListApplications)

SpecList == Init /\ [][NextList]_vars

\* contact submissions in flight together with one application submission
FirstApply == MaxContactReqs + 1

NextForms ==
  \/ Tick
  \/ \E r \in ContactReqs : ContactPost(r)
  \/ \E r \in ContactReqs : ContactSave(r)
  \/ ApplyUpload(FirstApply)
  \/ ApplyLimit(FirstApply)
  \/ ApplyHandler(FirstApply)
  \/ ApplySave(FirstApply)
  \/ UnlinkDone(FirstApply)

SpecForms == Init /\ [][NextForms]_vars

(* ====================================================================== *)
(* Properties                                                             *)
(* ====================================================================== *)
RecordIds(records) == {records[i]._id : i \in 1..Len(records)}
FilesWrittenBy(r) == {p \in DOMAIN uploads : uploads[p] = r}
IsNonPdf(f) == f.present /\ f.mimetype # "application/pdf"
IsOversize(f) == f.present /\ f.size > 5 * 1024 * 1024

\* C1: every Application record in the store has the file that its
\* resumeUrl names in the upload directory.
C1_EveryRecordHasItsFile ==
  \A i \in 1..Len(applications) :
    StaticPath(applications[i].resumeUrl) \in DOMAIN uploads

\* C2 (as stated): once an application request whose file was written has
\* been answered with the 400/500 of a failed save, its file is gone from
\* the upload directory and it has no Application record.
C2_FileGoneOnceAnswered ==
  \A r \in ApplyReqs :
    (pc[r] = "done" /\ res[r].status \in {400, 500} /\ file[r].present)
      => /\ file[r].path \notin DOMAIN uploads
         /\ r \notin RecordIds(applications)

\* C2 (amended): a failed save leaves no Application record for the
\* request and starts the deletion of its file before the 400/500 is sent;
\* the file is gone from the upload directory when that deletion completes
\* without error.
C2_CleanupStartedAndEffective ==
  [][\A r \in ApplyReqs :
       /\ (pc[r] = "saving" /\ pc'[r] = "done" /\ res'[r].status # 201)
            => /\ res'[r].status \in {400, 500}
               /\ unlink'[r] = "pending"
               /\ file'[r].present /\ file'[r].path = file[r].path
               /\ r \notin RecordIds(applications')
       /\ (unlink[r] = "pending" /\ unlink'[r] = "ok")
            => file[r].path \notin DOMAIN uploads'
       /\ unlink[r] # "none" => r \notin RecordIds(applications')]_vars

C2_Witness ==
  \E r \in ApplyReqs :
    pc[r] = "done" /\ res[r].status \in {400, 500} /\ unlink[r] = "ok"

\* C3: an application request with a non-PDF file is answered 400 with
\* success=false, keeps no file in the upload directory and stores no
\* Application record.
C3_NonPdfAnswered400 ==
  \A r \in ApplyReqs :
    (pc[r] = "done" /\ IsNonPdf(upload[r]))
      => /\ res[r].status = 400 /\ ~res[r].success
         /\ FilesWrittenBy(r) = {}
         /\ r \notin RecordIds(applications)

\* C4: an application request without a file is answered 400 "Please upload
\* a resume", and neither the upload step nor the handler changes the
\* Application collection, the Contact collection or the upload directory,
\* whatever the text fields are.
C4_NoFileRejectedBeforeAnyWrite ==
  [][\A r \in ApplyReqs :
       /\ (pc[r] = "idle" /\ pc'[r] # "idle" /\ ~upload'[r].present)
            => /\ pc'[r] = "handler"
               /\ UNCHANGED << applications, contacts, uploads >>
       /\ (pc[r] = "handler" /\ ~upload[r].present /\ pc'[r] # "handler")
            => /\ pc'[r] = "done"
               /\ res'[r] = [status |-> 400, success |-> FALSE,
                             message |-> "Please upload a resume"]
               /\ UNCHANGED << applications, contacts, uploads >>]_vars

C4_Witness ==
  \E r \in ApplyReqs :
    /\ pc[r] = "done" /\ ~upload[r].present /\ res[r].status = 400
    /\ applications # <<>>
    /\ DOMAIN uploads # {}

\* the message lists that validation against a schema can produce
RECURSIVE MessageLists(_)
MessageLists(schema) ==
  IF schema = <<>> THEN {<<>>}
  ELSE LET p == Head(schema)
           own == {<<>>, <<p.required>>}
                    \cup (IF p.match # "" THEN {<<p.match>>} ELSE {})
       IN  {m \o rest : m \in own, rest \in MessageLists(Tail(schema))}

FixedTexts ==
  { "Thank you! We will connect shortly.",
    "Error submitting form. Please try again.",
    "Thank you for your application! We will review it shortly.",
    "Error submitting application. Please try again.",
    "Please upload a resume",
    "File is too large. Maximum size is 5MB",
    "Error uploading file",
    "Error fetching applications",
    "Something broke!" }

ValidationTexts ==
  {Join(m, ". ") : m \in (MessageLists(contactSchema)
                            \cup MessageLists(applicationSchema)) \ {<<>>}}

\* C5: the message of every response is a fixed string or a joined list of
\* schema validation messages, never the text of an error object.
C5_NoErrorTextInResponses ==
  \A r \in Reqs :
    res[r] # NoResponse => res[r].message \in FixedTexts \cup ValidationTexts

\* C6: the files of two uploads that are processed together never have the
\* same generated name, so no upload replaces the file of another.
C6_FilenamesPairwiseDistinct ==
  \A r1, r2 \in ApplyReqs :
    (r1 # r2 /\ file[r1].present /\ file[r2].present)
      => file[r1].filename # file[r2].filename

\* the submitted field is absent or empty
Missing(b, field) == field \notin DOMAIN b \/ b[field] = ""
\* the submitted email is there and does not match the pattern
BadEmail(b) == ~Missing(b, "email") /\ ~EmailRegexTest(b.email)
ValidContact(b) ==
  ~Missing(b, "name") /\ ~Missing(b, "email") /\ ~Missing(b, "message")
    /\ ~BadEmail(b)

\* C7: a contact request with a missing name, email or message, or with an
\* email that does not match the pattern, is answered 400 with
\* success=false and a message that contains the text of every violated
\* field, and adds no Contact record.
C7_InvalidContactAnswered400 ==
  [][\A r \in ContactReqs :
       (pc[r] = "saving" /\ pc'[r] = "done" /\ ~ValidContact(body[r]))
         => /\ res'[r].status = 400 /\ ~res'[r].success
            /\ Missing(body[r], "name")
                 => Contains(res'[r].message, "Name is required")
            /\ Missing(body[r], "email")
                 => Contains(res'[r].message, "Email is required")
            /\ Missing(body[r], "message")
                 => Contains(res'[r].message, "Message is required")
            /\ BadEmail(body[r])
                 => Contains(res'[r].message,
                             "Please enter a valid email address")
            /\ contacts' = contacts]_vars

C7_Witness ==
  \E r \in ContactReqs :
    /\ pc[r] = "done" /\ res[r].status = 400
    /\ Contains(res[r].message, "Name is required")
    /\ Contains(res[r].message, "Message is required")

\* C8: a valid contact request whose insert the store does not fail (the
\* only other outcome, answered with the generic 500) adds exactly one
\* Contact record with the submitted name, email and message, is answered
\* 201 with success=true, and leaves the Application collection and the
\* upload directory unchanged.
C8_ValidContactStored ==
  [][\A r \in ContactReqs :
       (pc[r] = "saving" /\ pc'[r] = "done" /\ ValidContact(body[r])
          /\ res'[r] # [status |-> 500, success |-> FALSE,
                        message |-> "Error submitting form. Please try again."])
         => /\ Len(contacts') = Len(contacts) + 1
            /\ SubSeq(contacts', 1, Len(contacts)) = contacts
            /\ contacts'[Len(contacts')].name = body[r].name
            /\ contacts'[Len(contacts')].email = body[r].email
            /\ contacts'[Len(contacts')].message = body[r].message
            /\ res'[r].status = 201 /\ res'[r].success
            /\ UNCHANGED << applications, uploads >>]_vars

C8_Witness ==
  /\ \E r \in ContactReqs : pc[r] = "done" /\ res[r].status = 201
  /\ contacts # <<>>
  /\ applications # <<>>
  /\ DOMAIN uploads # {}

\* C9: GET /api/applications returns the stored Application records, all of
\* them and nothing else, in non-increasing createdAt order, also when
\* records share a createdAt.
C9_ListingCompleteAndNewestFirst ==
  [][(listing' # listing /\ listing'.status = 200)
       => /\ listing'.success
          /\ Len(listing'.data) = Len(applications)
          /\ \A i \in 1..Len(applications) :
               \E j \in 1..Len(listing'.data) :
                 listing'.data[j] = applications[i]
          /\ \A i, j \in 1..Len(listing'.data) :
               i < j => listing'.data[i].createdAt >= listing'.data[j].createdAt
    ]_vars

C9_Witness ==
  /\ listing.status = 200
  /\ Len(listing.data) >= 2
  /\ \E i, j \in 1..Len(listing.data) :
       /\ i # j
       /\ listing.data[i].createdAt # listing.data[j].createdAt
  /\ \E i, j \in 1..Len(applications) :
       i < j /\ applications[i].createdAt < applications[j].createdAt

====
